---- MODULE Spec2Model ----
(***************************************************************************)
(* A model of src/bot.js, the ProactiveBot: the job log kept in bot state, *)
(* the proactive resume of the conversation that queued a job, and the     *)
(* WHO_ARE_YOU / HELLO_USER dialogs.                                       *)
(*                                                                         *)
(* The three BotState objects (conversation, user, bot) are modelled as    *)
(* the SDK implements them: the first property access in a turn reads the  *)
(* whole state object of that scope from storage and caches it in the      *)
(* turn context together with a hash; saveChanges writes the whole cached  *)
(* object back (last writer wins) when it differs from what was read.      *)
(* Storage is read and written one scope at a time, so every read and      *)
(* every write of a turn is a step of its own and turns of different       *)
(* conversations interleave between them.                                  *)
(***************************************************************************)
EXTENDS Integers, Sequences, FiniteSets, TLC

VARIABLES
    botStore,    \* persisted bot state: the `jobs` property
    convStore,   \* persisted conversation state, per conversation: `dialog_state`
    userStore,   \* persisted user state, per user: the `user` profile
    userOf,      \* the user each conversation belongs to (fixed by Init)
    turn,        \* per conversation: the inbound turn being processed there
    nTurns,      \* inbound activities received so far
    resumed,     \* history: per job id, the proactive resumes invoked (capped)
    lateResume,  \* history: job ids resumed while persisted as completed
    finished,    \* history: job ids whose resuming turn has ended
    onlyRuns,    \* history: every activity received so far was a `run` message
    prompts,     \* history: per conversation, prompts sent since onboarding began
    scenario     \* history: per conversation, the onboarding exchange under way

hist == <<resumed, lateResume, finished, onlyRuns, prompts, scenario>>
vars == <<botStore, convStore, userStore, userOf, turn, nTurns, hist>>

----------------------------------------------------------------------------
(* Bounds *)

MaxTurns == 4
MaxSeqTurns == 6
ResumeCap == 2
PromptCap == 3

(* Program constants *)

DIALOG_STATE_PROPERTY == "dialog_state"
USER_PROFILE_PROPERTY == "user"
WHO_ARE_YOU == "who_are_you"
HELLO_USER == "hello_user"
NAME_PROMPT == "name_prompt"
CITY_PROMPT == "city_prompt"
JOBS_LIST == "jobs"

(* The universe the inputs are drawn from *)

Convs == {"c1", "c2"}
Users == {"u1", "u2"}
Millis == {1, 2}                       \* outcomes of date.getMilliseconds()
JobKey(n) == ToString(n)               \* jobs[jobIdNumber]: the property key
JobKeys == {JobKey(n) : n \in Millis}
Undefined == "undefined"
NameTexts == {"Ada", "Seattle"}
Texts == {"Run", "show", "done"} \cup NameTexts \cup {"done " \o k : k \in JobKeys}

Activities ==
    [type : {"message"}, text : Texts, value : {Undefined}]
      \cup [type : {"event"}, text : {""}, value : JobKeys]

----------------------------------------------------------------------------
(* Values *)

\* completeJob, line 204: what the sender of a completion is told
Ack == "Job completed. Notification sent."

NoRef == [conversation |-> "none", user |-> "none"]
NoJob == [present |-> FALSE, completed |-> FALSE, reference |-> NoRef]
EmptyJobs == [k \in JobKeys |-> NoJob]

\* The state object of each scope as storage.read returns it when nothing was
\* written yet (`items[key] || {}`): the property is not defined.
EmptyBot == [defined |-> FALSE, jobs |-> EmptyJobs]
EmptyConv == [defined |-> FALSE, dialogStack |-> <<>>]
EmptyUser == [name |-> Undefined, city |-> Undefined]

\* A BotState cache entry of a turn context: { state, hash }.
NoCache(s) == [loaded |-> FALSE, state |-> s, hash |-> s]

NoActivity == [type |-> "none", text |-> "", value |-> Undefined]

IdleTurn ==
    [pc |-> "idle", activity |-> NoActivity, responded |-> FALSE,
     dialogState |-> NoCache(EmptyConv), jobs |-> NoCache(EmptyBot),
     user |-> NoCache(EmptyUser), jobIdNumber |-> Undefined,
     reference |-> NoRef, proactiveDialogState |-> NoCache(EmptyConv),
     log |-> <<>>, late |-> FALSE, afterOnlyRuns |-> FALSE]

Event(ev, conv, text) == [ev |-> ev, conv |-> conv, text |-> text, rows |-> {}]

\* JavaScript truthiness of a profile field: undefined and '' are falsy.
Truthy(v) == v \notin {Undefined, ""}

----------------------------------------------------------------------------
(* The command dispatcher's reading of the text (onTurn, lines 84-104) *)

\* (text || '').trim().toLowerCase()
Utterance(text) ==
    CASE text = "Run" -> "run"
      [] text = "Ada" -> "ada"
      [] text = "Seattle" -> "seattle"
      [] OTHER -> text

\* utterance.split(' ')
Words(utterance) ==
    IF \E k \in JobKeys : utterance = "done " \o k
    THEN <<"done", CHOOSE k \in JobKeys : utterance = "done " \o k>>
    ELSE <<utterance>>

\* isNaN(parseInt(word)); words[1] of a one-word utterance is undefined
IsNaNParseInt(word) == word \notin {ToString(n) : n \in 0..9}

SecondWord(words) == IF Len(words) >= 2 THEN words[2] ELSE Undefined

Classify(text) ==
    LET utterance == Utterance(text)
        words == Words(utterance)
    IN  CASE utterance = "run" -> "RUN"
          [] utterance = "show" -> "SHOW"
          [] utterance # "run" /\ utterance # "show" /\ words[1] = "done" ->
                IF ~IsNaNParseInt(SecondWord(words)) THEN "DONE" ELSE "DONE_MISSING_ID"
          [] OTHER -> "UNRECOGNIZED"

----------------------------------------------------------------------------
(* The dialog set (constructor, lines 33-46) and its steps (lines 51-75).   *)
(* A dialog context d is [stack, user, userRead, out]: the dialog stack of  *)
(* the cached dialog_state, the cached user profile, whether a step has     *)
(* asked for the profile, and the events of the steps run so far.           *)

Prompts == {NAME_PROMPT, CITY_PROMPT}

PromptText(id) ==
    IF id = NAME_PROMPT THEN "What is your name?" ELSE "What city are you from?"

Greeting(user) == "Hello, " \o user.name \o " from " \o user.city

Frame(id) == [id |-> id, stepIndex |-> 0]

Emit(d, ev, text) == [d EXCEPT !.out = Append(@, [ev |-> ev, text |-> text])]

Pop(d) == [d EXCEPT !.stack = SubSeq(@, 1, Len(@) - 1)]

\* step.prompt(id, text): the prompt is pushed on the stack and its text sent
StepPrompt(d, id) ==
    Emit([d EXCEPT !.stack = Append(@, Frame(id))], "prompt", PromptText(id))

\* A variant that keeps the trimmed, lower-cased utterance instead of the text
SetNameLowered(user, result) == [user EXCEPT !.name = Utterance(result)]

\* A variant that stores a profile holding the city alone
SetCityOnly(user, result) == [name |-> Undefined, city |-> result]

\* promptForCity, lines 56-57, and captureCity, lines 64-65
SetName(user, result) == [user EXCEPT !.name = result]
SetCity(user, result) == [user EXCEPT !.city = result]

RECURSIVE RunStep(_, _, _)
RECURSIVE EndDialog(_, _)

\* The waterfall on top of the stack runs its step `index` with `result`.
RunStep(d, index, result) ==
    LET top == Len(d.stack)
        id == d.stack[top].id
        at == [d EXCEPT !.stack[top].stepIndex = index]
        got == [at EXCEPT !.userRead = TRUE]
    IN  CASE id = WHO_ARE_YOU /\ index = 0 ->          \* promptForName
                StepPrompt(at, NAME_PROMPT)
          [] id = WHO_ARE_YOU /\ index = 1 ->          \* promptForCity
                StepPrompt([got EXCEPT !.user = SetName(@, result)], CITY_PROMPT)
          [] id = WHO_ARE_YOU /\ index = 2 ->          \* captureCity
                EndDialog(Emit([got EXCEPT !.user = SetCity(@, result)], "end", id), Undefined)
          [] id = HELLO_USER /\ index = 0 ->           \* displayProfile
                EndDialog(Emit(Emit(got, "send", Greeting(got.user)), "end", id), Undefined)
          [] OTHER -> EndDialog(Emit(at, "end", id), result)

\* dc.endDialog(result): the active dialog is popped and its parent resumed.
\* A waterfall resumes with its next step; a prompt that is resumed by a
\* dialog begun on top of it sends its prompt again.
EndDialog(d, result) ==
    LET popped == Pop(d)
        n == Len(popped.stack)
    IN  IF n = 0 THEN popped
        ELSE IF popped.stack[n].id \in Prompts
             THEN Emit(popped, "prompt", PromptText(popped.stack[n].id))
             ELSE RunStep(popped, popped.stack[n].stepIndex + 1, result)

\* dc.beginDialog(id) for one of the two waterfalls
BeginDialog(d, id) ==
    RunStep(Emit([d EXCEPT !.stack = Append(@, Frame(id))], "begin", id), 0, Undefined)

\* dc.continueDialog() with the text of the activity
ContinueDialogStack(d, text) ==
    LET n == Len(d.stack)
    IN  IF n = 0 THEN d
        ELSE IF d.stack[n].id \in Prompts
             THEN IF text # ""
                  THEN EndDialog(d, text)
                  ELSE Emit(d, "prompt", PromptText(d.stack[n].id))
             ELSE RunStep(d, d.stack[n].stepIndex + 1, text)

----------------------------------------------------------------------------
(* BotState: property accessors and saveChanges *)

\* BotState.load: the first access in a turn context reads the scope's state
\* object from storage and remembers its hash.
Load(cache, stored) ==
    IF cache.loaded THEN cache ELSE [loaded |-> TRUE, state |-> stored, hash |-> stored]

\* accessor.get(context, defaultValue): an undefined property is set to the
\* default in the cached state object.
Get(cache, stored) == [Load(cache, stored) EXCEPT !.state.defined = TRUE]

\* A variant that takes every loaded state for changed (a forced save)
ChangedAlways(cache) == cache.loaded

\* BotState.saveChanges: the hash of the cached state differs from the one
\* taken at load
Changed(cache) == cache.loaded /\ cache.state # cache.hash

\* BotState.saveChanges: the cached state object is written whole when its
\* hash differs from the one taken at load.
SaveChanges(cache, stored) == IF Changed(cache) THEN cache.state ELSE stored

\* The hash of a cache entry stays the one taken at load: no turn context
\* saves the same scope twice.

----------------------------------------------------------------------------
(* Steps of a turn *)

\* A variant whose message overtakes what the turn has done so far
ReplyFirst(t, c, text) ==
    [t EXCEPT !.log = <<Event("send", c, text)>> \o @, !.responded = TRUE]

\* turnContext.sendActivity(text) in the turn of conversation c
Reply(t, c, text) ==
    [t EXCEPT !.log = Append(@, Event("send", c, text)), !.responded = TRUE]

\* TurnContext.getConversationReference(turnContext.activity)
Reference(c) == [conversation |-> c, user |-> userOf[c]]

\* The save of lines 122-124 that is next to write something, from stage i on
\* (1 user, 2 conversation, 3 bot); a save of an unchanged cache writes nothing.
NextSave(t, i) ==
    CASE i <= 1 /\ Changed(t.user) -> "saveUser"
      [] i <= 2 /\ ~(i <= 1 /\ Changed(t.user)) /\ Changed(t.dialogState) -> "saveConversation"
      [] ~(i <= 1 /\ Changed(t.user)) /\ ~(i <= 2 /\ Changed(t.dialogState))
            /\ Changed(t.jobs) -> "saveBot"
      [] OTHER -> "done"

\* After the command branch of a message turn: line 107
AfterCommand(t) ==
    IF t.activity.type = "message" /\ ~t.responded
    THEN [t EXCEPT !.pc = "continue"]
    ELSE [t EXCEPT !.pc = NextSave(t, 1)]

AddPrompts(seq, out) ==
    LET texts == SelectSeq(out, LAMBDA e : e.ev = "prompt")
        all == seq \o [i \in 1..Len(texts) |-> texts[i].text]
    IN  SubSeq(all, 1, IF Len(all) < PromptCap THEN Len(all) ELSE PromptCap)

Events(out, c) == [i \in 1..Len(out) |-> Event(out[i].ev, c, out[i].text)]

\* onTurn, lines 83-104 and 111-113: the activity is received, the dialog
\* context of a message is created (the conversation state is read) and the
\* text is classified.  The record of a turn that has ended is kept until the
\* next activity arrives, in any conversation.
Receive(c, a) ==
    /\ turn[c].pc \in {"idle", "done"}
    /\ LET message == a.type = "message"
           kind == IF message THEN Classify(a.text) ELSE "EVENT"
           t0 == [IdleTurn EXCEPT
                    !.activity = a,
                    !.afterOnlyRuns = onlyRuns,
                    !.late = IF kind = "DONE"
                             THEN Words(Utterance(a.text))[2] \in finished
                             ELSE kind = "EVENT" /\ a.value \in finished,
                    !.dialogState = IF message
                                    THEN Get(NoCache(EmptyConv), convStore[c])
                                    ELSE NoCache(EmptyConv)]
           t1 == CASE kind = "RUN" -> [t0 EXCEPT !.pc = "createJob"]
                   [] kind = "SHOW" -> [t0 EXCEPT !.pc = "showJobs"]
                   [] kind = "DONE" ->
                        [t0 EXCEPT !.pc = "completeJob",
                                   !.jobIdNumber = Words(Utterance(a.text))[2]]
                   [] kind = "EVENT" ->
                        IF ~IsNaNParseInt(a.value)
                        THEN [t0 EXCEPT !.pc = "completeJob", !.jobIdNumber = a.value]
                        ELSE AfterCommand(t0)
                   [] kind = "DONE_MISSING_ID" ->
                        AfterCommand(Reply(t0, c, "Enter the job ID number after \"done\"."))
                   [] OTHER -> AfterCommand(t0)
       IN  turn' = [o \in Convs |->
                      IF o = c THEN t1
                      ELSE IF turn[o].pc = "done" THEN IdleTurn ELSE turn[o]]
    /\ nTurns' = nTurns + 1
    /\ onlyRuns' = (onlyRuns /\ a.type = "message" /\ Classify(a.text) = "RUN")
    /\ scenario' = [o \in Convs |->
          CASE Len(scenario[o]) = 4 -> <<>>
            [] Len(scenario[o]) \in {1, 2} /\ o = c
                 /\ ~(a.type = "message" /\ Classify(a.text) = "UNRECOGNIZED") -> <<>>
            [] OTHER -> scenario[o]]
    /\ UNCHANGED <<botStore, convStore, userStore, userOf, resumed, lateResume, finished,
                   prompts>>

\* A variant that takes a missing record for a record
IsEmptyNever(jobInfo) == FALSE

\* isEmpty, lines 228-235, of a looked-up jobs[jobIdNumber]
IsEmpty(jobInfo) == ~jobInfo.present

\* createJob, line 148
NewJob(reference) == [present |-> TRUE, completed |-> FALSE, reference |-> reference]

\* createJob, lines 128-162
CreateJob(c) ==
    /\ turn[c].pc = "createJob"
    /\ \E ms \in Millis :
         LET jobIdNumber == JobKey(ms)
             t == turn[c]
             jobs == Get(t.jobs, botStore)
             t1 == [t EXCEPT !.jobs = jobs, !.jobIdNumber = jobIdNumber]
             t2 == IF IsEmpty(jobs.state.jobs[jobIdNumber])
                   THEN Reply(
                          [Reply(t1, c, "Need to create new job ID: " \o jobIdNumber)
                             EXCEPT !.jobs.state.jobs[jobIdNumber] = NewJob(Reference(c))],
                          c, "Successful write to log.")
                   ELSE t1
         IN  turn' = [turn EXCEPT ![c] = AfterCommand(t2)]
    /\ UNCHANGED <<botStore, convStore, userStore, userOf, nTurns, hist>>

\* The rows of the table showJobs sends: key, conversation id, completed
Rows(jobs) ==
    {<<k, jobs[k].reference.conversation, jobs[k].completed>> :
        k \in {j \in JobKeys : jobs[j].present}}

\* showJobs, lines 212-224
ShowJobs(c) ==
    /\ turn[c].pc = "showJobs"
    /\ LET t == turn[c]
           jobs == Get(t.jobs, botStore)
           t1 == [t EXCEPT !.jobs = jobs]
           t2 == IF Rows(jobs.state.jobs) # {}
                 THEN [t1 EXCEPT
                         !.log = Append(@, [Event("send", c, "| Job number | Conversation ID | Completed |")
                                              EXCEPT !.rows = Rows(jobs.state.jobs)]),
                         !.responded = TRUE]
                 ELSE Reply(t1, c, "The job log is empty.")
       IN  turn' = [turn EXCEPT ![c] = AfterCommand(t2)]
    /\ UNCHANGED <<botStore, convStore, userStore, userOf, nTurns, hist>>

\* completeJob, lines 164-181 and 205-207: the job is looked up
CompleteJob(c) ==
    /\ turn[c].pc = "completeJob"
    /\ LET t == turn[c]
           jobs == Get(t.jobs, botStore)
           jobInfo == jobs.state.jobs[t.jobIdNumber]
           t1 == [t EXCEPT !.jobs = jobs]
           t2 == IF IsEmpty(jobInfo)
                 THEN AfterCommand(Reply(t1, c, "Sorry no job with ID " \o t.jobIdNumber \o "."))
                 ELSE IF jobInfo.reference # NoRef /\ ~jobInfo.completed
                      THEN [t1 EXCEPT !.pc = "continueConversation",
                                      !.reference = jobInfo.reference]
                      ELSE IF jobInfo.completed
                           THEN AfterCommand(Reply(t1, c,
                                    "This job is already completed, please start a new job."))
                           ELSE AfterCommand(t1)
       IN  turn' = [turn EXCEPT ![c] = t2]
    /\ UNCHANGED <<botStore, convStore, userStore, userOf, nTurns, hist>>

Cap(n, cap) == IF n < cap THEN n ELSE cap

\* A variant that completes every job of the list
MarkAllCompleted(jobs, jobIdNumber) ==
    [k \in JobKeys |-> IF jobs[k].present THEN [jobs[k] EXCEPT !.completed = TRUE] ELSE jobs[k]]

\* completeJob, line 186: jobInfo.completed = true, on the cached job list
MarkCompleted(jobs, jobIdNumber) == [jobs EXCEPT ![jobIdNumber].completed = TRUE]

\* A variant that greets every user
ChooseHello(user) == HELLO_USER

\* completeJob, lines 194-199
ChooseDialog(user) == IF Truthy(user.city) THEN HELLO_USER ELSE WHO_ARE_YOU

\* completeJob, lines 184-199: the callback of adapter.continueConversation.
\* It runs in a turn context of its own, made from the stored reference, so
\* the dialog state and the profile it uses are read from storage here.
ContinueConversation(c) ==
    /\ turn[c].pc = "continueConversation"
    /\ LET t == turn[c]
           jobIdNumber == t.jobIdNumber
           target == t.reference.conversation
           dialogState == Get(NoCache(EmptyConv), convStore[target])
           user == userStore[t.reference.user]
           d0 == [stack |-> dialogState.state.dialogStack, user |-> user,
                  userRead |-> TRUE, out |-> <<>>]
           id == ChooseDialog(user)
           d == BeginDialog(d0, id)
           fresh == id = WHO_ARE_YOU /\ d0.stack = <<>>
           notice == Event("send", target,
                           "Your queued job " \o jobIdNumber \o " just completed.")
           since == IF fresh THEN <<>> ELSE prompts[target]
       IN  /\ turn' = [turn EXCEPT ![c] =
                 [t EXCEPT !.jobs.state.jobs = MarkCompleted(@, jobIdNumber),
                           !.log = (@ \o <<notice>>) \o Events(d.out, target),
                           !.proactiveDialogState =
                               [dialogState EXCEPT !.state.dialogStack = d.stack],
                           !.pc = "saveProactive"]]
           /\ resumed' = [resumed EXCEPT ![jobIdNumber] = Cap(@ + 1, ResumeCap)]
           /\ lateResume' = IF botStore.jobs[jobIdNumber].completed
                            THEN lateResume \cup {jobIdNumber} ELSE lateResume
           /\ prompts' = [prompts EXCEPT ![target] = AddPrompts(since, d.out)]
           /\ scenario' = [scenario EXCEPT ![target] =
                 CASE fresh -> <<"notified">>
                   [] ~fresh /\ Len(@) = 3 -> Append(@, "notified")
                   [] OTHER -> <<>>]
    /\ UNCHANGED <<botStore, convStore, userStore, userOf, nTurns, finished, onlyRuns>>

\* completeJob, lines 184-190 and 204, when the stored reference cannot be
\* reached: the job is marked in the cached list, then the send of line 190
\* throws and the rest of the callback is skipped.  What becomes of the
\* exception is decided outside bot.js: with an onTurnError handler on the
\* adapter continueConversation resolves and line 204 runs; without one it
\* rejects, completeJob and onTurn are left, and lines 107-124 do not run.
ContinueConversationFails(c) ==
    /\ turn[c].pc = "continueConversation"
    /\ \E handled \in BOOLEAN :
         LET t == turn[c]
             jobIdNumber == t.jobIdNumber
             target == t.reference.conversation
             t1 == [t EXCEPT !.jobs.state.jobs = MarkCompleted(@, jobIdNumber),
                             !.log = Append(@, Event("fail", target,
                                 "Your queued job " \o jobIdNumber \o " just completed."))]
         IN  turn' = [turn EXCEPT ![c] =
                 IF handled
                 THEN AfterCommand(Reply(t1, c, "Job completed. Notification sent."))
                 ELSE [t1 EXCEPT !.log = Append(@, Event("throw", c, "")), !.pc = "done"]]
    /\ resumed' = [resumed EXCEPT ![turn[c].jobIdNumber] = Cap(@ + 1, ResumeCap)]
    /\ lateResume' = IF botStore.jobs[turn[c].jobIdNumber].completed
                     THEN lateResume \cup {turn[c].jobIdNumber} ELSE lateResume
    /\ UNCHANGED <<botStore, convStore, userStore, userOf, nTurns, finished, onlyRuns,
                   prompts, scenario>>

\* completeJob, lines 200-204: the notified conversation's state is saved,
\* then the sender of the completion is told.
SaveProactive(c) ==
    /\ turn[c].pc = "saveProactive"
    /\ LET t == turn[c]
           target == t.reference.conversation
           t1 == [t EXCEPT !.log = Append(@, Event("save", target, DIALOG_STATE_PROPERTY))]
       IN  /\ convStore' = [convStore EXCEPT
                 ![target] = SaveChanges(t.proactiveDialogState, @)]
           /\ turn' = [turn EXCEPT ![c] =
                 AfterCommand(Reply(t1, c, "Job completed. Notification sent."))]
    /\ UNCHANGED <<botStore, userStore, userOf, nTurns, hist>>

\* onTurn, lines 107-110: a message nothing has answered goes to the dialog
\* on top of the conversation's stack.
ContinueDialog(c) ==
    /\ turn[c].pc = "continue"
    /\ LET t == turn[c]
           user == Load(t.user, userStore[userOf[c]])
           d0 == [stack |-> t.dialogState.state.dialogStack, user |-> user.state,
                  userRead |-> FALSE, out |-> <<>>]
           d == ContinueDialogStack(d0, t.activity.text)
           sent == \E i \in 1..Len(d.out) : d.out[i].ev \in {"send", "prompt"}
           t1 == [t EXCEPT !.dialogState.state.dialogStack = d.stack,
                           !.user = IF d.userRead THEN [user EXCEPT !.state = d.user] ELSE @,
                           !.log = @ \o Events(d.out, c),
                           !.responded = sent]
       IN  /\ turn' = [turn EXCEPT ![c] = [t1 EXCEPT !.pc = NextSave(t1, 1)]]
           /\ prompts' = [prompts EXCEPT ![c] = AddPrompts(@, d.out)]
           /\ scenario' = [scenario EXCEPT ![c] =
                 IF Len(@) \in {1, 2} THEN Append(@, t.activity.text) ELSE @]
    /\ UNCHANGED <<botStore, convStore, userStore, userOf, nTurns, resumed, lateResume,
                   finished, onlyRuns>>

\* onTurn, line 122
SaveUserState(c) ==
    /\ turn[c].pc = "saveUser"
    /\ LET t == turn[c]
       IN  /\ userStore' = [userStore EXCEPT ![userOf[c]] = SaveChanges(t.user, @)]
           /\ turn' = [turn EXCEPT ![c] = [t EXCEPT !.pc = NextSave(t, 2)]]
           /\ scenario' = [o \in Convs |->
                 IF o # c /\ userOf[o] = userOf[c] THEN <<>> ELSE scenario[o]]
    /\ UNCHANGED <<botStore, convStore, userOf, nTurns, resumed, lateResume, finished,
                   onlyRuns, prompts>>

\* onTurn, line 123
SaveConversationState(c) ==
    /\ turn[c].pc = "saveConversation"
    /\ LET t == turn[c]
       IN  /\ convStore' = [convStore EXCEPT ![c] = SaveChanges(t.dialogState, @)]
           /\ turn' = [turn EXCEPT ![c] = [t EXCEPT !.pc = NextSave(t, 3)]]
    /\ UNCHANGED <<botStore, userStore, userOf, nTurns, hist>>

\* onTurn, line 124
SaveBotState(c) ==
    /\ turn[c].pc = "saveBot"
    /\ LET t == turn[c]
       IN  /\ botStore' = SaveChanges(t.jobs, botStore)
           /\ turn' = [turn EXCEPT ![c] = [t EXCEPT !.pc = "done"]]
           /\ finished' = IF t.reference # NoRef
                          THEN finished \cup {t.jobIdNumber} ELSE finished
    /\ UNCHANGED <<convStore, userStore, userOf, nTurns, resumed, lateResume, onlyRuns,
                   prompts, scenario>>

----------------------------------------------------------------------------
(* Specifications *)

\* A user may have a profile from an earlier session.
Profiles == {EmptyUser, [name |-> "Ada", city |-> "Seattle"]}

Init ==
    /\ botStore = EmptyBot
    /\ convStore = [c \in Convs |-> EmptyConv]
    /\ userStore \in {f \in [Users -> Profiles] : f["u2"] = EmptyUser}
    /\ userOf \in {f \in [Convs -> Users] : f["c1"] = "u1"}
    /\ turn = [c \in Convs |-> IdleTurn]
    /\ nTurns = 0
    /\ resumed = [k \in JobKeys |-> 0]
    /\ lateResume = {}
    /\ finished = {}
    /\ onlyRuns = TRUE
    /\ prompts = [c \in Convs |-> <<>>]
    /\ scenario = [c \in Convs |-> <<>>]

InFlight(c) == turn[c].pc \notin {"idle", "done"}

\* An activity arrives for a conversation that is not processing one.
OnTurn(c) ==
    /\ nTurns < MaxTurns
    /\ \E a \in Activities : Receive(c, a)

\* An activity arrives while no turn is in flight in any conversation.
OnTurnAlone(c) ==
    /\ nTurns < MaxSeqTurns
    /\ \A o \in Convs : ~InFlight(o)
    /\ \E a \in Activities : Receive(c, a)

Step(c) ==
    \/ CreateJob(c)
    \/ ShowJobs(c)
    \/ CompleteJob(c)
    \/ ContinueConversation(c)
    \/ SaveProactive(c)
    \/ ContinueDialog(c)
    \/ SaveUserState(c)
    \/ SaveConversationState(c)
    \/ SaveBotState(c)

Next == \E c \in Convs : OnTurn(c) \/ Step(c)

NextSeq == \E c \in Convs : OnTurnAlone(c) \/ Step(c)

\* Turns of different conversations run concurrently.
Spec == Init /\ [][Next]_vars

\* Turns are processed one at a time.
SpecSeq == Init /\ [][NextSeq]_vars

NextFault == \E c \in Convs : OnTurnAlone(c) \/ Step(c) \/ ContinueConversationFails(c)

\* Turns are processed one at a time and a stored reference may be unreachable.
SpecFault == Init /\ [][NextFault]_vars

\* An exception that leaves onTurn (nothing in bot.js catches it): lines
\* 107-124 do not run.  What the adapter then does is decided outside bot.js:
\* an onTurnError handler, if one is set, may send a message of its own.
Escapes(t, c) ==
    {[t EXCEPT !.log = Append(@, Event("throw", c, "")), !.pc = "done"],
     [t EXCEPT !.log = Append(Append(@, Event("throw", c, "")),
                              Event("send", c, "onTurnError")),
               !.pc = "done"]}

\* createJob line 137, showJobs line 213, completeJob line 166: the first
\* jobsList.get of the turn reads the bot state from storage, and the read
\* rejects.  In createJob the call stands before the try of line 142.
JobsReadFails(c) ==
    /\ turn[c].pc \in {"createJob", "showJobs", "completeJob"}
    /\ ~turn[c].jobs.loaded
    /\ \E t \in Escapes([turn[c] EXCEPT !.log = Append(@, Event("readFail", c, JOBS_LIST))], c) :
          turn' = [turn EXCEPT ![c] = t]
    /\ UNCHANGED <<botStore, convStore, userStore, userOf, nTurns, hist>>

\* onTurn, line 124: the write of the changed bot state rejects.
SaveBotStateFails(c) ==
    /\ turn[c].pc = "saveBot"
    /\ \E t \in Escapes([turn[c] EXCEPT !.log = Append(@, Event("writeFail", c, JOBS_LIST))], c) :
          turn' = [turn EXCEPT ![c] = t]
    /\ UNCHANGED <<botStore, convStore, userStore, userOf, nTurns, hist>>

\* completeJob, lines 200-204: the notified conversation's state is saved,
\* then the send of the acknowledgment of line 204 throws.
AcknowledgeFails(c) ==
    /\ turn[c].pc = "saveProactive"
    /\ LET t == turn[c]
           target == t.reference.conversation
           t1 == [t EXCEPT !.log = Append(Append(@, Event("save", target, DIALOG_STATE_PROPERTY)),
                                          Event("sendFail", c, Ack))]
       IN  /\ convStore' = [convStore EXCEPT
                 ![target] = SaveChanges(t.proactiveDialogState, @)]
           /\ \E t2 \in Escapes(t1, c) : turn' = [turn EXCEPT ![c] = t2]
    /\ UNCHANGED <<botStore, userStore, userOf, nTurns, hist>>

\* An activity arrives while no turn is in flight, among the first MaxTurns.
OnTurnFew(c) ==
    /\ nTurns < MaxTurns
    /\ \A o \in Convs : ~InFlight(o)
    /\ \E a \in Activities : Receive(c, a)

NextOutage ==
    \E c \in Convs :
        \/ OnTurnFew(c)
        \/ Step(c)
        \/ JobsReadFails(c)
        \/ SaveBotStateFails(c)
        \/ AcknowledgeFails(c)

\* Turns are processed one at a time; a read or a write of the bot state, or
\* the send of an acknowledgment, may fail.
SpecOutage == Init /\ [][NextOutage]_vars

----------------------------------------------------------------------------
(* Reading a turn's record *)

Kind(t) ==
    IF t.activity.type = "message" THEN Classify(t.activity.text)
    ELSE IF t.activity.type = "event" THEN "EVENT" ELSE "NONE"

Completion(t) == Kind(t) \in {"DONE", "EVENT"}

Ended(c) == turn[c].pc = "done"

\* The messages a turn has sent to conversation c
SentTo(t, c) ==
    LET sends == SelectSeq(t.log, LAMBDA e : e.ev = "send" /\ e.conv = c)
    IN  [i \in 1..Len(sends) |-> sends[i].text]

Logged(t, ev) == \E i \in 1..Len(t.log) : t.log[i].ev = ev

Resuming(t) == t.pc \in {"continueConversation", "saveProactive"} \/ Logged(t, "begin")

AlreadyCompleted == "This job is already completed, please start a new job."

----------------------------------------------------------------------------
(* Properties *)

\* C1: a completion that finds its job not completed marks it completed and
\* resumes the job's conversation once; once that turn has ended, every
\* later `done id` turn (or jobCompleted event) replies that the job is
\* already completed, invokes no resume, sends no notice and begins no dialog.
C1_LaterDoneIsRefused ==
    \A c \in Convs :
        LET t == turn[c]
            k == t.jobIdNumber
        IN  /\ (Ended(c) /\ Completion(t) /\ t.jobs.hash.jobs[k].present
                     /\ ~t.jobs.hash.jobs[k].completed)
                  => /\ t.jobs.state.jobs[k].completed
                     /\ Cardinality({i \in 1..Len(t.log) : t.log[i].ev = "begin"}) = 1
            /\ t.late =>
                  /\ ~Resuming(t)
                  /\ Ended(c) => SentTo(t, c) = <<AlreadyCompleted>>

\* C2: no proactive notification is attempted for a job id whose persisted
\* record already has completed = true.
C2_NoResumeOncePersistedCompleted == lateResume = {}

\* C3: in the persisted job log a completed flag never goes from true back
\* to false.
C3_CompletedNeverReverts ==
    [][\A k \in JobKeys :
          (botStore.jobs[k].present /\ botStore.jobs[k].completed)
              => (botStore'.jobs[k].present /\ botStore'.jobs[k].completed)]_vars

\* C4: a `run` turn whose generated id already has a record leaves the job
\* log as it was and sends the user a duplicate notice.
C4_DuplicateRunIsReported ==
    \A c \in Convs :
        (Ended(c) /\ Kind(turn[c]) = "RUN"
              /\ turn[c].jobs.hash.jobs[turn[c].jobIdNumber].present)
            => /\ botStore = turn[c].jobs.hash
               /\ SentTo(turn[c], c) # <<>>

ShownRows(t) == UNION {t.log[i].rows : i \in 1..Len(t.log)}

\* C5: starting from an empty job log, a `show` after N `run` turns and
\* nothing else lists exactly N rows, each with completed = false.
C5_ShowListsEveryRun ==
    \A c \in Convs :
        (Ended(c) /\ Kind(turn[c]) = "SHOW" /\ turn[c].afterOnlyRuns)
            => /\ Cardinality(ShownRows(turn[c])) = nTurns - 1
               /\ \A r \in ShownRows(turn[c]) : r[3] = FALSE

\* C6: a completion that resumed the job's conversation changes, in the
\* persisted job log, only the completed flag of that job: the ids, every
\* other flag and every reference are as the turn found them.
C6_DoneChangesOnlyCompleted ==
    \A c \in Convs :
        (Ended(c) /\ Completion(turn[c]) /\ Logged(turn[c], "begin"))
            => LET before == turn[c].jobs.hash.jobs
                   k == turn[c].jobIdNumber
               IN  /\ before[k].present /\ ~before[k].completed
                   /\ botStore.jobs = [before EXCEPT ![k].completed = TRUE]

C6_Witness ==
    \E c \in Convs :
        /\ Ended(c) /\ Completion(turn[c]) /\ Logged(turn[c], "begin")
        /\ \E j \in JobKeys : j # turn[c].jobIdNumber /\ botStore.jobs[j].present

\* C7: a completion for an id that has no record replies "Sorry no job with
\* ID <id>." and does nothing else: the job log and the conversation's dialog
\* stack are as the turn found them, no resume, no notice, no dialog.
C7_UnknownIdIsReported ==
    \A c \in Convs :
        (Ended(c) /\ Completion(turn[c])
              /\ ~turn[c].jobs.hash.jobs[turn[c].jobIdNumber].present)
            => /\ turn[c].log = <<Event("send", c,
                       "Sorry no job with ID " \o turn[c].jobIdNumber \o ".")>>
               /\ botStore.jobs = turn[c].jobs.hash.jobs
               /\ turn[c].dialogState.loaded =>
                       convStore[c].dialogStack = turn[c].dialogState.hash.dialogStack

C7_Witness ==
    \E c \in Convs :
        /\ Ended(c) /\ Completion(turn[c])
        /\ ~turn[c].jobs.hash.jobs[turn[c].jobIdNumber].present
        /\ \E j \in JobKeys : botStore.jobs[j].present
        /\ convStore[c].dialogStack # <<>>

IsPrefix(s, t) == Len(s) <= Len(t) /\ s = SubSeq(t, 1, Len(s))

Onboarding == <<PromptText(NAME_PROMPT), PromptText(CITY_PROMPT)>>

Begun(t) == {t.log[i].text : i \in {j \in 1..Len(t.log) : t.log[j].ev = "begin"}}

\* C8: a notification begins HELLO_USER exactly when the notified user's
\* profile has a city, HELLO_USER greets and ends with no prompt, and the
\* prompts sent to a conversation from the start of an onboarding to its
\* end are the name prompt, then the city prompt, and no other.
C8_BranchAndTwoPrompts ==
    /\ \A c \in Convs :
          turn[c].pc = "saveProactive" =>
              /\ Begun(turn[c]) =
                    {IF Truthy(userStore[turn[c].reference.user].city)
                     THEN HELLO_USER ELSE WHO_ARE_YOU}
              /\ HELLO_USER \in Begun(turn[c]) =>
                    /\ Greeting(userStore[turn[c].reference.user])
                          \in {turn[c].log[i].text : i \in 1..Len(turn[c].log)}
                    /\ ~Logged(turn[c], "prompt")
    /\ \A c \in Convs : IsPrefix(prompts[c], Onboarding)
    /\ \A c \in Convs : \A i \in 1..Len(turn[c].log) :
          (turn[c].log[i].ev = "end" /\ turn[c].log[i].text = WHO_ARE_YOU)
              => prompts[turn[c].log[i].conv] = Onboarding

C10_ResumeFailureIsReported ==
    \A c \in Convs :
        (Ended(c) /\ Logged(turn[c], "fail"))
            => /\ \E i \in 1..Len(SentTo(turn[c], c)) :
                     SentTo(turn[c], c)[i] # "Job completed. Notification sent."
               /\ botStore.jobs[turn[c].jobIdNumber].completed
               /\ Cardinality({i \in 1..Len(turn[c].log) : turn[c].log[i].ev = "fail"}) = 1

Waterfalls == {WHO_ARE_YOU, HELLO_USER}

\* The dialogs begun and not yet ended on a stack: its waterfall frames
Dialogs(stack) == SelectSeq(stack, LAMBDA f : f.id \in Waterfalls)

\* C11: a conversation's persisted dialog stack never holds more than one
\* dialog: a notification that finds WHO_ARE_YOU suspended on a prompt there
\* does not put a second dialog on the stack.
C11_OneDialogPerConversation ==
    \A c \in Convs : Len(Dialogs(convStore[c].dialogStack)) <= 1

\* C12: in the persisted job log the reference of a job id is set when its
\* record is created and is the same ever after.
C12_ReferenceNeverChanges ==
    [][\A k \in JobKeys :
          (botStore.jobs[k].present /\ botStore'.jobs[k].present)
              => botStore'.jobs[k].reference = botStore.jobs[k].reference]_vars

Notice(k) == "Your queued job " \o k \o " just completed."

\* What a `done v` message turn does, from the job log it reads: the job log
\* it leaves, its replies to the sender, the notice sent to the job's
\* conversation and the dialog begun there.
DoneEffect(before, v, profiles) ==
    CASE ~before[v].present ->
            [registry |-> before, replies |-> <<"Sorry no job with ID " \o v \o ".">>,
             notice |-> <<>>, begun |-> {}]
      [] before[v].present /\ before[v].completed ->
            [registry |-> before, replies |-> <<AlreadyCompleted>>,
             notice |-> <<>>, begun |-> {}]
      [] OTHER ->
            [registry |-> [before EXCEPT ![v].completed = TRUE], replies |-> <<Ack>>,
             notice |-> <<Notice(v)>>,
             begun |-> {IF Truthy(profiles[before[v].reference.user].city)
                        THEN HELLO_USER ELSE WHO_ARE_YOU}]

\* The messages of a turn's own replies: those sent outside the resumed turn
Replies(t, c) ==
    LET own == SelectSeq(t.log, LAMBDA e : e.ev = "send" /\ e.conv = c
                            /\ e.text \in {Ack, AlreadyCompleted}
                                  \cup {"Sorry no job with ID " \o k \o "." : k \in JobKeys})
    IN  [i \in 1..Len(own) |-> own[i].text]

Notices(t) ==
    LET sent == SelectSeq(t.log, LAMBDA e : e.ev = "send" /\ e.conv = t.reference.conversation
                            /\ e.text \in {Notice(k) : k \in JobKeys})
    IN  [i \in 1..Len(sent) |-> sent[i].text]

\* C13: a jobCompleted event with value v does what the message `done v` does
\* in the same conversation and state: the same job log after the turn, the
\* same replies to the sender, the same notice and dialog in the job's
\* conversation, whether job v is missing, not completed or completed.
C13_EventActsAsDone ==
    \A c \in Convs :
        (Ended(c) /\ Completion(turn[c]))
            => [registry |-> botStore.jobs, replies |-> Replies(turn[c], c),
                notice |-> Notices(turn[c]), begun |-> Begun(turn[c])]
                  = DoneEffect(turn[c].jobs.hash.jobs, turn[c].jobIdNumber, userStore)

C13_Witness ==
    \E c \in Convs :
        /\ Ended(c) /\ Kind(turn[c]) = "EVENT"
        /\ Begun(turn[c]) = {WHO_ARE_YOU}
        /\ turn[c].reference.conversation # c
        /\ convStore[c].dialogStack # <<>>

Success == "Successful write to log."

\* The events of a turn's log after its first event of kind ev
After(t, ev) ==
    LET first == CHOOSE i \in 1..Len(t.log) :
                    t.log[i].ev = ev /\ \A j \in 1..(i - 1) : t.log[j].ev # ev
    IN  SubSeq(t.log, first + 1, Len(t.log))

\* C14: a `run`, `show` or `done` turn in which a read or a write of the job
\* log fails tells the user of the failure with a message sent from within
\* the turn, sends no success message for a write that was not persisted,
\* and leaves the persisted job log as it was.
C14_StorageFailureIsReported ==
    \A c \in Convs :
        \A ev \in {"readFail", "writeFail"} :
            (Ended(c) /\ Logged(turn[c], ev))
                => /\ \E i \in 1..Len(After(turn[c], ev)) :
                          /\ After(turn[c], ev)[i].ev = "send"
                          /\ After(turn[c], ev)[i].conv = c
                   /\ \A i \in 1..Len(SentTo(turn[c], c)) : SentTo(turn[c], c)[i] # Success
                   /\ turn[c].jobs.loaded => botStore = turn[c].jobs.hash

\* C15: a message whose text is `run`, `show` or begins with `done` is never
\* passed to dialog continuation, and so never changes the user's profile.
C15_CommandsNeverContinueDialog ==
    \A c \in Convs :
        Kind(turn[c]) \in {"RUN", "SHOW", "DONE", "DONE_MISSING_ID"}
            => /\ turn[c].pc # "continue"
               /\ ~Changed(turn[c].user)

\* The positions in a turn's log of the events that satisfy Test
Positions(t, Test(_)) == {i \in 1..Len(t.log) : Test(t.log[i])}

\* C16: in a completion that resumed the job's conversation the notice is
\* sent there first, then the dialog is begun there, then that conversation's
\* dialog state is saved, and only then is the sender told
\* "Job completed. Notification sent.".
C16_NoticeBeginSaveAck ==
    \A c \in Convs :
        (Completion(turn[c]) /\ Logged(turn[c], "begin")
              /\ turn[c].pc \notin {"continueConversation", "saveProactive"})
            => LET t == turn[c]
                   target == t.reference.conversation
                   notice == Positions(t, LAMBDA e : e = Event("send", target, Notice(t.jobIdNumber)))
                   begin == Positions(t, LAMBDA e : e.ev = "begin" /\ e.conv = target)
                   save == Positions(t, LAMBDA e : e = Event("save", target, DIALOG_STATE_PROPERTY))
                   ack == Positions(t, LAMBDA e : e = Event("send", c, Ack))
               IN  /\ Cardinality(notice) = 1 /\ Cardinality(begin) = 1
                   /\ Cardinality(save) = 1 /\ Cardinality(ack) = 1
                   /\ \A n \in notice : \A b \in begin : \A s \in save : \A a \in ack :
                          /\ n < b /\ b < s /\ s < a
                          /\ \A i \in (n + 1)..(s - 1) : t.log[i].conv = target

C16_Witness ==
    \E c \in Convs :
        /\ Ended(c) /\ Completion(turn[c]) /\ Logged(turn[c], "begin")
        /\ turn[c].reference.conversation # c
        /\ Len(turn[c].log) >= 5

\* A turn of conversation c has read the conversation's dialog state and has
\* not yet passed the save of line 123
HoldsDialogState(c) ==
    /\ turn[c].dialogState.loaded
    /\ turn[c].pc \notin {"idle", "saveBot", "done"}

\* C17: the turn that a completion opens in the job's conversation never
\* runs while another turn of that conversation has read its dialog state
\* and not yet saved it, also when the completion is sent from the
\* conversation that created the job.
C17_OneTurnPerConversation ==
    \A c \in Convs :
        turn[c].pc = "saveProactive" => ~HoldsDialogState(turn[c].reference.conversation)

\* C18: when a completion turn has ended, the dialog stack persisted for
\* the notified conversation is the one its resumed turn saved; the save of
\* line 123, made from the dialog state the outer turn read before the
\* resume, has not overwritten it, also when the completion was sent from
\* the notified conversation itself.
C18_OuterSaveKeepsResumedDialog ==
    \A c \in Convs :
        (Ended(c) /\ Completion(turn[c]) /\ Logged(turn[c], "begin"))
            => convStore[turn[c].reference.conversation].dialogStack
                  = turn[c].proactiveDialogState.state.dialogStack

C18_Witness ==
    \E c \in Convs :
        /\ Ended(c) /\ Kind(turn[c]) = "DONE" /\ Logged(turn[c], "begin")
        /\ turn[c].reference.conversation = c
        /\ turn[c].dialogState.loaded
        /\ turn[c].dialogState.state.dialogStack # convStore[c].dialogStack
        /\ Len(Dialogs(convStore[c].dialogStack)) = 1

\* C19: once a turn that delivered a job's completion notice has ended, the
\* persisted job log has completed = true for that job, also when the send
\* of the acknowledgment or a later step of the turn failed.
C19_NotifiedJobIsPersistedCompleted ==
    \A c \in Convs :
        (Ended(c) /\ Completion(turn[c]) /\ Notices(turn[c]) # <<>>)
            => /\ botStore.jobs[turn[c].jobIdNumber].present
               /\ botStore.jobs[turn[c].jobIdNumber].completed

====
